---- MODULE Spec2Model ----
(***************************************************************************)
(* Model of the browser client of the Real-Time Speech Translator:         *)
(*   - AudioCapture component (connectWebSocket, disconnectWebSocket,       *)
(*     handleAzureWebSocketMessage, startAudioCapture, processAudioFrames,  *)
(*     stopAudioCapture, the effects and the buttons it renders),           *)
(*   - App component (connectionState, transcripts, languagePair,           *)
(*     sessionId and their handlers).                                       *)
(* JavaScript runs one task at a time: every action below is one task of    *)
(* the event loop (a click, a socket event, a timer, an audio callback)     *)
(* together with the microtasks it triggers (the continuation of an await   *)
(* whose promise the task settles).  An action reads the program state as   *)
(* the record Cur, applies the handlers as functions from state record to   *)
(* state record in the order the code runs them, and commits the result.    *)
(*                                                                          *)
(* Samples are fixed-point: the integer s stands for the float s/UNIT.      *)
(***************************************************************************)
EXTENDS Integers, Sequences, FiniteSets, TLC

\* ---------------------------------------------------------------- bounds
\* FRAME_SIZE is 2048 in the source; the model scales it down, every
\* formula is stated in terms of FRAME_SIZE.
FRAME_SIZE == 2
MaxChunkLen == 3        \* longest chunk an audio callback delivers
MaxChunks == 1          \* audio callbacks in one behaviour of Spec
MaxFeeds == 2           \* audio callbacks in one behaviour of SpecFrames
MaxSockets == 2         \* WebSocket objects created in one behaviour
MaxCaptures == 1        \* startAudioCapture invocations in one behaviour
MaxMsgs == 1            \* inbound messages in one behaviour
MaxTests == 1           \* clicks on "Send Test Audio Frame"
MaxLangChanges == 1     \* language selections in one behaviour
MaxInitFails == 1       \* open events whose session_init is not sent
NumSessionIds == 2      \* distinct strings generateSessionId can return
MaxBurst == 3           \* inbound messages in one behaviour of SpecMessages
MaxTicks == 2           \* keepalive periods that elapse in one behaviour of SpecKeepalive
WORD_LIMIT == 2         \* words the display keeps of a text (50 in the source)
MaxShown == 2           \* transcript messages in one behaviour of SpecDisplay
frameSize == 2          \* this.frameSize of the AudioWorklet processor (1024 in the source)
MaxBlockLen == 3        \* longest input block of one process call
MaxStarts == 2          \* startAudioCapture invocations in one behaviour of SpecStarts
MaxBlocks == 2          \* process calls in one behaviour of SpecWorklet

\* ------------------------------------------------------ program constants
UNIT == 1000                    \* fixed-point resolution of a sample
SILENCE_THRESHOLD == 10         \* 0.01 in units of 1/UNIT
INT16_NEG_SCALE == 32768        \* 0x8000
INT16_POS_SCALE == 32767        \* 0x7FFF

\* sample values an audio callback can deliver (fixed-point floats):
\* silence, exactly the threshold, just above it, and beyond full scale
Samples == {0, 10, -11, 1500}

VARIABLES
    connectionState,      \* App: useState<ConnectionState>
    transcripts,          \* App: useState<TranscriptEntry[]>
    languagePair,         \* App: useState<LanguagePair>
    sessionId,            \* App: useState<string>
    isCapturing,          \* AudioCapture: useState(false)
    isWebSocketConnected, \* AudioCapture: useState(false)
    error,                \* AudioCapture: useState<string>('')
    websocketRef,         \* AudioCapture: useRef<WebSocket|null>, 0 = null
    sessionIdRef,         \* AudioCapture: useRef<string>, 0 = ''
    mediaStreamRef,       \* useRef<MediaStream|null>: capture that made it, 0 = null
    audioContextRef,      \* useRef<AudioContext|null>: capture that made it, 0 = null
    processorRef,         \* useRef<ScriptProcessorNode|null>: capture that made it, 0 = null
    liveStreams,          \* captures whose MediaStream still has running tracks
    liveContexts,         \* captures whose AudioContext is open with its processor connected
    frameBufferRef,       \* AudioCapture: useRef<Float32Array[]>
    pingInterval,         \* whether the setInterval of the ping effect exists
    currentPartial,       \* TranscriptDisplay: useState<string>('')
    lastLanguagePair,     \* TranscriptDisplay: useState<LanguagePair>(languagePair)
    audioProcessor,       \* audio-processor.js: the AudioProcessor instance
    sockets,              \* the WebSocket objects created so far
    captures,             \* the startAudioCapture invocations so far
    wire,                 \* every message handed to WebSocket.send, in order
    input,                \* history: samples pushed to frameBufferRef since it was last cleared
    cut,                  \* history: candidate frames cut since frameBufferRef was last cleared
    dropped,              \* history: the messages logged and dropped, with the length of the log then
    budget                \* how many more of each bounded input the behaviour may take

vars == <<connectionState, transcripts, languagePair, sessionId, isCapturing,
          isWebSocketConnected, error, websocketRef, sessionIdRef,
          mediaStreamRef, audioContextRef, processorRef, liveStreams,
          liveContexts, frameBufferRef, pingInterval,
          currentPartial, lastLanguagePair, audioProcessor,
          sockets, captures, wire, input, cut, dropped, budget>>

Cur ==
    [connectionState |-> connectionState, transcripts |-> transcripts,
     languagePair |-> languagePair, sessionId |-> sessionId,
     isCapturing |-> isCapturing, isWebSocketConnected |-> isWebSocketConnected,
     error |-> error, websocketRef |-> websocketRef, sessionIdRef |-> sessionIdRef,
     mediaStreamRef |-> mediaStreamRef, audioContextRef |-> audioContextRef,
     processorRef |-> processorRef, liveStreams |-> liveStreams,
     liveContexts |-> liveContexts, frameBufferRef |-> frameBufferRef,
     pingInterval |-> pingInterval,
     currentPartial |-> currentPartial, lastLanguagePair |-> lastLanguagePair,
     audioProcessor |-> audioProcessor,
     sockets |-> sockets, captures |-> captures, wire |-> wire,
     input |-> input, cut |-> cut, dropped |-> dropped, budget |-> budget]

\* ------------------------------------------------------ TranscriptDisplay
\* A text is the sequence of its characters; NoText is the value of a field
\* the message does not carry (undefined).
NoText == <<"<undefined>">>
Truthy(text) == text # NoText /\ text # <<>>

\* String.prototype.split(' '): the empty text has one, empty, word
RECURSIVE split(_)
split(text) ==
    IF text = <<>> THEN << <<>> >>
    ELSE LET rest == split(Tail(text))
         IN  IF Head(text) = " " THEN << <<>> >> \o rest
             ELSE << <<Head(text)>> \o Head(rest) >> \o Tail(rest)

\* Array.prototype.join(' ')
RECURSIVE join(_)
join(words) ==
    IF words = <<>> THEN <<>>
    ELSE IF Len(words) = 1 THEN Head(words)
    ELSE Head(words) \o <<" ">> \o join(Tail(words))

\* Array.prototype.slice(-n)
slice(words, n) ==
    IF n >= Len(words) THEN words
    ELSE SubSeq(words, Len(words) - n + 1, Len(words))

Ellipsis == <<".", ".", ".">>

limitWordsFromStart(text) ==
    LET words == split(text)
    IN  IF Len(words) > WORD_LIMIT
        THEN join(SubSeq(words, 1, WORD_LIMIT)) \o Ellipsis
        ELSE text

\* "Limit to 50 words for better readability": the last words and '...'
limitWords(text) ==
    LET words == split(text)
    IN  IF Len(words) > WORD_LIMIT
        THEN join(slice(words, WORD_LIMIT)) \o Ellipsis
        ELSE text

\* transcripts.filter(t => t.type === type)
filter(log, type) == SelectSeq(log, LAMBDA t : t.type = type)

HasDistinctTranslation(entry) ==
    Truthy(entry.translated) /\ entry.translated # entry.original

\* the effect "Track language pair changes"
languageEffect(s) ==
    IF s.languagePair.target # s.lastLanguagePair.target
    THEN [s EXCEPT !.lastLanguagePair = s.languagePair,
                   !.currentPartial = <<>>]
    ELSE s

\* the effect "Update current partial transcript with word limit",
\* dependency list [transcripts]
transcriptsEffect(s) ==
    LET partials == filter(s.transcripts, "partial")
    IN  IF Len(partials) > 0
        THEN [s EXCEPT !.currentPartial =
                          limitWords(partials[Len(partials)].original)]
        ELSE s

getCurrentTranslatedPartialOrOriginal(s) ==
    LET partials == filter(s.transcripts, "partial")
        finals == filter(s.transcripts, "final")
    IN  IF Truthy(s.currentPartial)
        THEN IF Len(partials) > 0
                /\ HasDistinctTranslation(partials[Len(partials)])
             THEN limitWords(partials[Len(partials)].translated)
             ELSE IF Len(finals) > 0
                     /\ HasDistinctTranslation(finals[Len(finals)])
             THEN limitWords(finals[Len(finals)].translated)
             ELSE IF s.transcripts # <<>>
             THEN limitWords(s.transcripts[Len(s.transcripts)].original)
             ELSE <<>>
        ELSE <<>>

\* "Get current translated text - only show actual translations, not
\* original text"
getCurrentTranslatedPartial(s) ==
    LET partials == filter(s.transcripts, "partial")
        finals == filter(s.transcripts, "final")
    IN  IF Truthy(s.currentPartial)
        THEN IF Len(partials) > 0
                /\ HasDistinctTranslation(partials[Len(partials)])
             THEN limitWords(partials[Len(partials)].translated)
             ELSE IF Len(finals) > 0
                     /\ HasDistinctTranslation(finals[Len(finals)])
             THEN limitWords(finals[Len(finals)].translated)
             ELSE <<>>
        ELSE <<>>

\* the effects of TranscriptDisplay after a render: the language effect
\* first, then the transcript effect when the transcripts prop is a new array
Render(s) ==
    LET s1 == languageEffect(s)
    IN  IF s.transcripts # transcripts THEN transcriptsEffect(s1) ELSE s1

CommitAll(s) ==
    /\ connectionState' = s.connectionState
    /\ transcripts' = s.transcripts
    /\ languagePair' = s.languagePair
    /\ sessionId' = s.sessionId
    /\ isCapturing' = s.isCapturing
    /\ isWebSocketConnected' = s.isWebSocketConnected
    /\ error' = s.error
    /\ websocketRef' = s.websocketRef
    /\ sessionIdRef' = s.sessionIdRef
    /\ mediaStreamRef' = s.mediaStreamRef
    /\ audioContextRef' = s.audioContextRef
    /\ processorRef' = s.processorRef
    /\ liveStreams' = s.liveStreams
    /\ liveContexts' = s.liveContexts
    /\ frameBufferRef' = s.frameBufferRef
    /\ pingInterval' = s.pingInterval
    /\ currentPartial' = s.currentPartial
    /\ lastLanguagePair' = s.lastLanguagePair
    /\ audioProcessor' = s.audioProcessor
    /\ sockets' = s.sockets
    /\ captures' = s.captures
    /\ wire' = s.wire
    /\ input' = s.input
    /\ cut' = s.cut
    /\ dropped' = s.dropped
    /\ budget' = s.budget

\* a handler's updates, then the effects of the render they cause
Commit(s) == CommitAll(Render(s))

\* ------------------------------------------------------------ sequences
RECURSIVE Flatten(_)
Flatten(chunks) ==
    IF chunks = <<>> THEN <<>> ELSE Head(chunks) \o Flatten(Tail(chunks))

RECURSIVE SeqsOfLen(_, _)
SeqsOfLen(S, n) ==
    IF n = 0 THEN {<<>>}
    ELSE {<<x>> \o t : x \in S, t \in SeqsOfLen(S, n - 1)}

Abs(x) == IF x < 0 THEN -x ELSE x
Min(a, b) == IF a < b THEN a ELSE b
Max(a, b) == IF a > b THEN a ELSE b

\* ------------------------------------------------------ sample converter
\* Math.max(-1, Math.min(1, x))
Clamp(x) == Max(-UNIT, Min(UNIT, x))

\* the float product, as the integer part the typed-array store keeps
\* (ToInt16 truncates toward zero)
TruncDiv(a, b) == IF a >= 0 THEN a \div b ELSE -((-a) \div b)

\* ToInt16 of the typed-array store: modulo 2^16 into [-32768, 32767]
ToInt16(x) ==
    LET m == x % 65536 IN IF m >= 32768 THEN m - 65536 ELSE m

\* pcmData[i] = sample < 0 ? sample * 0x8000 : sample * 0x7FFF
FloatToInt16(x) ==
    LET sample == Clamp(x) IN
    ToInt16(TruncDiv(IF sample < 0 THEN sample * INT16_NEG_SCALE
                                   ELSE sample * INT16_POS_SCALE, UNIT))

HasAudioInclusive(frameSamples) ==
    \E i \in 1..FRAME_SIZE : Abs(Clamp(frameSamples[i])) >= SILENCE_THRESHOLD

\* hasAudio after the conversion loop: Math.abs(sample) > 0.01 for some i
HasAudio(frameSamples) ==
    \E i \in 1..FRAME_SIZE : Abs(Clamp(frameSamples[i])) > SILENCE_THRESHOLD

\* ---------------------------------------------------- audio-processor.js
\* The application never adds the worklet module; until a node is created
\* from it there is no AudioProcessor instance.
NotRegistered == [sampleCount |-> 0, buffer |-> <<>>, port |-> <<>>,
                  received |-> <<>>, calls |-> -1]

\* constructor(): sampleCount 0 and a zero-filled Float32Array(frameSize);
\* port holds the messages posted, received (history) the samples of the
\* input blocks, calls (history) the number of process calls
AudioProcessorNew ==
    [sampleCount |-> 0, buffer |-> [j \in 1..frameSize |-> 0],
     port |-> <<>>, received |-> <<>>, calls |-> 0]

workletSampleToInt16Symmetric(x) ==
    LET sample == Max(-UNIT, Min(UNIT, x)) IN
    ToInt16(TruncDiv(sample * 32767, UNIT))

\* Math.max(-1, Math.min(1, this.buffer[j])), then
\* pcmData[j] = sample < 0 ? sample * 0x8000 : sample * 0x7FFF
workletSampleToInt16(x) ==
    LET sample == Max(-UNIT, Min(UNIT, x)) IN
    ToInt16(TruncDiv(IF sample < 0 THEN sample * 32768
                                   ELSE sample * 32767, UNIT))

\* the body of the for loop over inputChannel: store the sample, count it,
\* and when the buffer is full post the converted frame and reset the count
storeSampleKeepCount(p, x) ==
    LET buffer == [p.buffer EXCEPT ![p.sampleCount + 1] = x]
        count == p.sampleCount + 1
    IN  IF count >= frameSize
        THEN [p EXCEPT !.buffer = buffer,
                       !.port = Append(@, [type |-> "audio_frame",
                                           data |-> [j \in 1..frameSize |->
                                              workletSampleToInt16(buffer[j])]]),
                       !.sampleCount = frameSize - 1]
        ELSE [p EXCEPT !.buffer = buffer, !.sampleCount = count]

storeSample(p, x) ==
    LET buffer == [p.buffer EXCEPT ![p.sampleCount + 1] = x]
        count == p.sampleCount + 1
    IN  IF count >= frameSize
        THEN [p EXCEPT !.buffer = buffer,
                       !.port = Append(@, [type |-> "audio_frame",
                                           data |-> [j \in 1..frameSize |->
                                              workletSampleToInt16(buffer[j])]]),
                       !.sampleCount = 0]
        ELSE [p EXCEPT !.buffer = buffer, !.sampleCount = count]

RECURSIVE fillBuffer(_, _)
fillBuffer(p, inputChannel) ==
    IF inputChannel = <<>> THEN p
    ELSE fillBuffer(storeSample(p, Head(inputChannel)), Tail(inputChannel))

\* process(inputs, outputs, parameters): channels is inputs[0], the
\* sequence of the input's channels; only channel 0 is read
process(p, channels) ==
    LET p1 == [p EXCEPT !.calls = @ + 1]
    IN  IF Len(channels) > 0
        THEN fillBuffer([p1 EXCEPT !.received = @ \o channels[1]],
                        channels[1])
        ELSE p1

\* ------------------------------------------------------------- WebSocket
NoSocket == 0
IsOpen(s, ws) == ws # NoSocket /\ s.sockets[ws].readyState = "OPEN"

\* WebSocket.send on an open socket: the message goes on the wire
Send(s, ws, msg) == [s EXCEPT !.wire = Append(@, [ws |-> ws] @@ msg)]

\* WebSocket.close(): no effect on a closing or closed socket; a socket
\* that is still connecting is failed (its close is preceded by an error event)
Close(s, ws) ==
    LET rs == s.sockets[ws].readyState IN
    IF rs = "OPEN" THEN [s EXCEPT !.sockets[ws].readyState = "CLOSING"]
    ELSE IF rs = "CONNECTING"
         THEN [s EXCEPT !.sockets[ws].readyState = "CLOSING",
                        !.sockets[ws].failing = TRUE]
         ELSE s

\* ------------------------------------------------------ frame accumulator
\* frameBufferRef.current.reduce((sum, frame) => sum + frame.length, 0)
RECURSIVE TotalSamples(_)
TotalSamples(chunks) ==
    IF chunks = <<>> THEN 0 ELSE Len(Head(chunks)) + TotalSamples(Tail(chunks))

\* history: the frame just cut joins the candidate frames of the current run
RecordCut(s, frameSamples, wasSent) ==
    [s EXCEPT !.cut[Len(s.cut)] =
        Append(@, [samples |-> frameSamples, sent |-> wasSent])]

\* a payload as it goes on the wire; samples and origin are history:
\* the values the payload was converted from, and the sender
AudioMessage(pcmData, samples, origin) ==
    [type |-> "audio", data |-> pcmData, samples |-> samples, origin |-> origin]

HasFrameStrict(accumulatedSamples) == Len(accumulatedSamples) > FRAME_SIZE

\* accumulatedSamples.length >= FRAME_SIZE
HasFrame(accumulatedSamples) == Len(accumulatedSamples) >= FRAME_SIZE

SpliceFromEnd(accumulatedSamples) ==
    LET n == Len(accumulatedSamples) IN
    [removed |-> SubSeq(accumulatedSamples, n - FRAME_SIZE + 1, n),
     rest |-> SubSeq(accumulatedSamples, 1, n - FRAME_SIZE)]

\* accumulatedSamples.splice(0, FRAME_SIZE): the elements removed, and
\* what the array holds afterwards
Splice(accumulatedSamples) ==
    [removed |-> SubSeq(accumulatedSamples, 1, FRAME_SIZE),
     rest |-> SubSeq(accumulatedSamples, FRAME_SIZE + 1, Len(accumulatedSamples))]

PutBackNothing(s, accumulatedSamples) == [s EXCEPT !.frameBufferRef = <<>>]

PutBackFlush(s, accumulatedSamples) ==
    IF Len(accumulatedSamples) > 0 /\ IsOpen(s, s.websocketRef)
    THEN Send([s EXCEPT !.frameBufferRef = <<>>], s.websocketRef,
              AudioMessage([i \in 1..Len(accumulatedSamples) |->
                               FloatToInt16(accumulatedSamples[i])],
                           accumulatedSamples, "frame"))
    ELSE [s EXCEPT !.frameBufferRef = <<>>]

\* "Put remaining samples back if any": the shift loop has emptied the
\* buffer, what is left becomes its only chunk
PutBack(s, accumulatedSamples) ==
    [s EXCEPT !.frameBufferRef =
        IF Len(accumulatedSamples) > 0 THEN <<accumulatedSamples>> ELSE <<>>]

\* the loop "while (accumulatedSamples.length >= FRAME_SIZE)" and the
\* push of what is left
RECURSIVE DrainFrames(_, _)
DrainFrames(s, accumulatedSamples) ==
    IF HasFrame(accumulatedSamples)
    THEN LET spliced == Splice(accumulatedSamples)
             frameSamples == spliced.removed
             pcmData == [i \in 1..FRAME_SIZE |-> FloatToInt16(frameSamples[i])]
             hasAudio == HasAudio(frameSamples)
             doSend == hasAudio /\ IsOpen(s, s.websocketRef)
             s1 == IF doSend
                   THEN Send(s, s.websocketRef,
                             AudioMessage(pcmData, frameSamples, "frame"))
                   ELSE s
         IN  DrainFrames(RecordCut(s1, frameSamples, doSend), spliced.rest)
    ELSE PutBack(s, accumulatedSamples)

processAudioFrames(s) ==
    IF s.websocketRef = NoSocket \/ Len(s.frameBufferRef) = 0 THEN s
    ELSE IF TotalSamples(s.frameBufferRef) >= FRAME_SIZE
         THEN DrainFrames(s, Flatten(s.frameBufferRef))
         ELSE s

\* processor.onaudioprocess: a chunk is taken only while the current
\* socket is open
onaudioprocess(s, inputData) ==
    IF IsOpen(s, s.websocketRef)
    THEN processAudioFrames(
            [s EXCEPT !.frameBufferRef = Append(@, inputData),
                      !.input[Len(s.input)] = @ \o inputData])
    ELSE s

\* ------------------------------------------------------- App's handlers
onConnectionChange(s, state) == [s EXCEPT !.connectionState = state]

onTranscriptUpdateFirst(s, entry) == [s EXCEPT !.transcripts = <<entry>> \o @]

onTranscriptUpdate(s, entry) == [s EXCEPT !.transcripts = Append(@, entry)]

onSessionStart(s, id) == [s EXCEPT !.sessionId = id, !.transcripts = <<>>]

\* ------------------------------------------------- startAudioCapture (catch)
NoCapture == 0

\* the catch block of startAudioCapture, entered by invocation c
CaptureCatch(s, c, message) ==
    LET s1 == IF s.websocketRef # NoSocket
              THEN [Close(s, s.websocketRef) EXCEPT !.websocketRef = NoSocket]
              ELSE s
        s2 == onConnectionChange([s1 EXCEPT !.error = message], "error")
    IN  [s2 EXCEPT !.isCapturing = FALSE, !.captures[c].pc = "failed"]

\* ------------------------------------------- the promise of connectWebSocket
\* reject(...): the first settlement wins; an invocation of
\* startAudioCapture awaiting the promise resumes in its catch block
Reject(s, ws, message) ==
    IF s.sockets[ws].promise # "pending" THEN s
    ELSE LET s1 == [s EXCEPT !.sockets[ws].promise = "rejected"]
             c == s.sockets[ws].awaiter
         IN  IF c # NoCapture THEN CaptureCatch(s1, c, message) ELSE s1

\* resolve(ws): the awaiting invocation resumes and starts its 200 ms wait
Resolve(s, ws) ==
    IF s.sockets[ws].promise # "pending" THEN s
    ELSE LET s1 == [s EXCEPT !.sockets[ws].promise = "resolved"]
             c == s.sockets[ws].awaiter
         IN  IF c # NoCapture THEN [s1 EXCEPT !.captures[c].pc = "await_delay"]
             ELSE s1

\* ------------------------------------------------------ connectWebSocket
\* the synchronous part: state changes and new WebSocket(wsUrl); the
\* handlers close over the languagePair of the render that made them
connectWebSocket(s, awaiter) ==
    LET s1 == onConnectionChange(s, "connecting")
    IN  [s1 EXCEPT !.isWebSocketConnected = FALSE,
                   !.sockets = Append(@, [readyState |-> "CONNECTING",
                                          promise |-> "pending",
                                          awaiter |-> awaiter,
                                          languagePair |-> s.languagePair,
                                          failing |-> FALSE,
                                          sawTick |-> FALSE,
                                          ignoredClose |-> FALSE])]

\* ws.onopen; sid is the value generateSessionId returns, sendOk tells
\* whether the statements of the try block complete
onopen(s, ws, sid, sendOk) ==
    LET s1 == onConnectionChange(s, "connected")
        s2 == [s1 EXCEPT !.isWebSocketConnected = TRUE,
                         !.websocketRef = ws,
                         !.sessionIdRef = sid]
        s3 == onSessionStart(s2, sid)
    IN  IF sendOk
        THEN Resolve(Send(s3, ws, [type |-> "session_init", sessionId |-> sid,
                                   language_pair |-> s.sockets[ws].languagePair]),
                     ws)
        ELSE Reject(s3, ws, "init")

\* ws.onerror
onerror(s, ws) ==
    LET s1 == onConnectionChange(s, "error")
    IN  Reject([s1 EXCEPT !.isWebSocketConnected = FALSE,
                          !.error = "WebSocket connection failed"],
               ws, "WebSocket connection failed")

oncloseUnguarded(s, ws) ==
    [onConnectionChange(s, "disconnected")
       EXCEPT !.isWebSocketConnected = FALSE, !.isCapturing = FALSE]

\* ws.onclose; ignoredClose (history) records that the handler found the
\* socket not to be the current one
onclose(s, ws) ==
    IF s.websocketRef = ws
    THEN [onConnectionChange(s, "disconnected")
            EXCEPT !.isWebSocketConnected = FALSE, !.isCapturing = FALSE]
    ELSE [s EXCEPT !.sockets[ws].ignoredClose = TRUE]

connectTimeoutRejectOnly(s, ws) ==
    IF s.sockets[ws].readyState # "OPEN"
    THEN Reject(s, ws, "WebSocket connection timeout")
    ELSE s

\* the callback of the 10 s timer of connectWebSocket
connectTimeout(s, ws) ==
    IF s.sockets[ws].readyState # "OPEN"
    THEN Reject(Close(s, ws), ws, "WebSocket connection timeout")
    ELSE s

disconnectKeepsRef(s) ==
    LET s1 == IF s.websocketRef # NoSocket
              THEN Close(s, s.websocketRef)
              ELSE s
    IN  onConnectionChange([s1 EXCEPT !.isWebSocketConnected = FALSE],
                           "disconnected")

\* --------------------------------------------------- disconnectWebSocket
disconnectWebSocket(s) ==
    LET s1 == IF s.websocketRef # NoSocket
              THEN [Close(s, s.websocketRef) EXCEPT !.websocketRef = NoSocket]
              ELSE s
    IN  onConnectionChange([s1 EXCEPT !.sessionIdRef = 0,
                                      !.isWebSocketConnected = FALSE],
                           "disconnected")

\* ------------------------------------------- handleAzureWebSocketMessage
Absent == "<absent>"
Or(a, b) == IF Truthy(a) THEN a ELSE b     \* JavaScript a || b, on texts

\* the types whose case only writes to the console
KnownNoOps == {"session_confirmed", "connection_status", "ack"}

\* history: console.error('Error parsing WebSocket message:') and
\* console.log('Unknown Azure Speech message type:')
LogDropped(s, why) ==
    [s EXCEPT !.dropped = Append(@, [why |-> why, logLen |-> Len(s.transcripts)])]

\* the template literal `Azure Speech: ${data.message}`
ErrorText(data) ==
    "Azure Speech: " \o (IF data.message = Absent THEN "undefined" ELSE data.message)

handleMessageErrorShownOnly(s, data) ==
    CASE data.type = "partial_transcript" ->
            onTranscriptUpdate(s, [type |-> "partial",
                                   original |-> Or(data.original, data.text),
                                   translated |-> Or(data.translated, data.text)])
      [] data.type = "final_transcript" ->
            onTranscriptUpdate(s, [type |-> "final",
                                   original |-> data.original,
                                   translated |-> Or(data.translated, data.original)])
      [] data.type = "error" -> [s EXCEPT !.error = ErrorText(data)]
      [] data.type \in KnownNoOps -> s
      [] OTHER -> LogDropped(s, "unknown type")

handleAzureWebSocketMessage(s, data) ==
    CASE data.type = "partial_transcript" ->
            onTranscriptUpdate(s, [type |-> "partial",
                                   original |-> Or(data.original, data.text),
                                   translated |-> Or(data.translated, data.text)])
      [] data.type = "final_transcript" ->
            onTranscriptUpdate(s, [type |-> "final",
                                   original |-> data.original,
                                   translated |-> Or(data.translated, data.original)])
      [] data.type = "error" ->
            onConnectionChange([s EXCEPT !.error = ErrorText(data)], "error")
      [] data.type \in KnownNoOps -> s
      [] OTHER -> LogDropped(s, "unknown type")

onmessageParseErrorFatal(s, event) ==
    IF event.malformed
    THEN onConnectionChange(LogDropped(s, "parse error"), "error")
    ELSE handleAzureWebSocketMessage(s, event.data)

\* ws.onmessage: JSON.parse, then the handler; a parse error is caught
onmessage(s, event) ==
    IF event.malformed THEN LogDropped(s, "parse error")
    ELSE handleAzureWebSocketMessage(s, event.data)

\* ------------------------------------------------------ startAudioCapture
\* up to the first await: the isCapturing guard, the clean-up of the
\* previous stream and context, and the call of connectWebSocket
startAudioCapture(s) ==
    IF s.isCapturing THEN s
    ELSE LET c == Len(s.captures) + 1
             s1 == [s EXCEPT !.error = ""]
             s2 == IF s1.mediaStreamRef # NoCapture
                   THEN [s1 EXCEPT !.liveStreams = @ \ {s1.mediaStreamRef},
                                   !.mediaStreamRef = NoCapture]
                   ELSE s1
             s3 == IF s2.audioContextRef # NoCapture
                   THEN [s2 EXCEPT !.liveContexts = @ \ {s2.audioContextRef},
                                   !.audioContextRef = NoCapture]
                   ELSE s2
             s4 == [s3 EXCEPT !.captures = Append(@, [pc |-> "await_connect"])]
         IN  connectWebSocket(s4, c)

\* after "await new Promise(resolve => setTimeout(resolve, 200))":
\* getDisplayMedia is called and awaited
captureDelayDone(s, c) == [s EXCEPT !.captures[c].pc = "await_media"]

\* after "await navigator.mediaDevices.getDisplayMedia(...)" to the end
captureMediaDone(s, c, outcome) ==
    CASE outcome = "audio" ->
            [s EXCEPT !.mediaStreamRef = c, !.liveStreams = @ \cup {c},
                      !.audioContextRef = c, !.processorRef = c,
                      !.liveContexts = @ \cup {c},
                      !.isCapturing = TRUE, !.captures[c].pc = "done"]
      [] outcome = "no_audio" -> CaptureCatch(s, c, "No audio track found")
      [] OTHER -> CaptureCatch(s, c, "getDisplayMedia rejected")

\* ------------------------------------------------------- stopAudioCapture
\* history: clearing the buffer ends the current run of samples
NewRun(s) ==
    IF s.input[Len(s.input)] = <<>> THEN s
    ELSE [s EXCEPT !.input = Append(@, <<>>), !.cut = Append(@, <<>>)]

stopAudioCapture(s) ==
    LET s1 == IF s.mediaStreamRef # NoCapture
              THEN [s EXCEPT !.liveStreams = @ \ {s.mediaStreamRef},
                             !.mediaStreamRef = NoCapture]
              ELSE s
        s2 == IF s1.processorRef # NoCapture
              THEN [s1 EXCEPT !.liveContexts = @ \ {s1.processorRef},
                              !.processorRef = NoCapture]
              ELSE s1
        s3 == IF s2.audioContextRef # NoCapture
              THEN [s2 EXCEPT !.liveContexts = @ \ {s2.audioContextRef},
                              !.audioContextRef = NoCapture]
              ELSE s2
    IN  NewRun([s3 EXCEPT !.frameBufferRef = <<>>, !.isCapturing = FALSE])

\* ----------------------------------------------- "Send Test Audio Frame"
sendTestFrame(s) ==
    IF IsOpen(s, s.websocketRef)
    THEN Send(s, s.websocketRef,
              AudioMessage([i \in 1..FRAME_SIZE |-> 0],
                           [i \in 1..FRAME_SIZE |-> 0], "test"))
    ELSE s

changeLanguageAnyState(s, pair) ==
    LET s1 == [s EXCEPT !.languagePair = pair]
    IN  IF s1.websocketRef # NoSocket /\ s1.sessionIdRef # 0
        THEN Send(s1, s1.websocketRef,
                  [type |-> "update_language", language_pair |-> pair])
        ELSE s1

\* ------------------------- handleLanguageChange and useEffect [languagePair]
changeLanguage(s, pair) ==
    LET s1 == [s EXCEPT !.languagePair = pair]
    IN  IF IsOpen(s1, s1.websocketRef) /\ s1.sessionIdRef # 0
        THEN Send(s1, s1.websocketRef,
                  [type |-> "update_language", language_pair |-> pair])
        ELSE s1

\* =================================================================== Init
DefaultPair == [source |-> "auto", target |-> "en"]
LanguagePairs == {DefaultPair, [source |-> "auto", target |-> "hi"]}
SessionIds == 1..NumSessionIds

\* the effect "Keep connection alive with periodic pings", dependency
\* list []: it runs once, after the first render
pingEffect(s) ==
    IF ~IsOpen(s, s.websocketRef) THEN s
    ELSE [s EXCEPT !.pingInterval = TRUE]

\* the callback of setInterval(..., 30000)
pingTick(s) ==
    IF IsOpen(s, s.websocketRef)
    THEN Send(s, s.websocketRef, [type |-> "ping"])
    ELSE s

\* the state of the first render
FirstRender ==
    [connectionState |-> "disconnected", transcripts |-> <<>>,
     languagePair |-> DefaultPair, sessionId |-> 0,
     isCapturing |-> FALSE, isWebSocketConnected |-> FALSE,
     error |-> "", websocketRef |-> NoSocket, sessionIdRef |-> 0,
     mediaStreamRef |-> NoCapture, audioContextRef |-> NoCapture,
     processorRef |-> NoCapture, liveStreams |-> {},
     liveContexts |-> {}, frameBufferRef |-> <<>>, pingInterval |-> FALSE,
     currentPartial |-> <<>>, lastLanguagePair |-> DefaultPair,
     audioProcessor |-> NotRegistered,
     sockets |-> <<>>, captures |-> <<>>, wire |-> <<>>,
     input |-> << <<>> >>, cut |-> << <<>> >>, dropped |-> <<>>,
     budget |-> [sockets |-> MaxSockets, captures |-> MaxCaptures,
                 chunks |-> MaxChunks, msgs |-> MaxMsgs, tests |-> MaxTests,
                 langs |-> MaxLangChanges, initFails |-> MaxInitFails,
                 feeds |-> 0, ticks |-> 0]]

\* the state after the components are mounted: the effects have run
Mounted == pingEffect(FirstRender)

StateIs(s) ==
    /\ connectionState = s.connectionState
    /\ transcripts = s.transcripts
    /\ languagePair = s.languagePair
    /\ sessionId = s.sessionId
    /\ isCapturing = s.isCapturing
    /\ isWebSocketConnected = s.isWebSocketConnected
    /\ error = s.error
    /\ websocketRef = s.websocketRef
    /\ sessionIdRef = s.sessionIdRef
    /\ mediaStreamRef = s.mediaStreamRef
    /\ audioContextRef = s.audioContextRef
    /\ processorRef = s.processorRef
    /\ liveStreams = s.liveStreams
    /\ liveContexts = s.liveContexts
    /\ frameBufferRef = s.frameBufferRef
    /\ pingInterval = s.pingInterval
    /\ currentPartial = s.currentPartial
    /\ lastLanguagePair = s.lastLanguagePair
    /\ audioProcessor = s.audioProcessor
    /\ sockets = s.sockets
    /\ captures = s.captures
    /\ wire = s.wire
    /\ input = s.input
    /\ cut = s.cut
    /\ dropped = s.dropped
    /\ budget = s.budget

Init == StateIs(Mounted)

Spend(s, what) == [s EXCEPT !.budget[what] = @ - 1]

\* ------------------------------------------------------- the user's clicks
\* "Connect WebSocket": shown while !isWebSocketConnected, disabled while connecting
ClickConnect ==
    /\ ~isWebSocketConnected
    /\ connectionState # "connecting"
    /\ budget.sockets > 0
    /\ Commit(connectWebSocket(Spend(Cur, "sockets"), NoCapture))

\* "Disconnect WebSocket": shown while isWebSocketConnected
ClickDisconnect ==
    /\ isWebSocketConnected
    /\ Commit(disconnectWebSocket(Cur))

\* "Start Capturing Meeting Audio": shown while !isCapturing, disabled
\* while !isWebSocketConnected or connecting
ClickStartCapture ==
    /\ ~isCapturing
    /\ isWebSocketConnected
    /\ connectionState # "connecting"
    /\ budget.captures > 0
    /\ budget.sockets > 0
    /\ Commit(startAudioCapture(Spend(Spend(Cur, "captures"), "sockets")))

\* "Stop Audio Capture": shown while isCapturing
ClickStopCapture ==
    /\ isCapturing
    /\ Commit(stopAudioCapture(Cur))

\* "Send Test Audio Frame": shown while isCapturing && isWebSocketConnected
ClickTestFrame ==
    /\ isCapturing
    /\ isWebSocketConnected
    /\ budget.tests > 0
    /\ Commit(sendTestFrame(Spend(Cur, "tests")))

\* the language selects: disabled while connectionState === 'connected'
SelectLanguage ==
    /\ connectionState # "connected"
    /\ budget.langs > 0
    /\ \E pair \in LanguagePairs \ {languagePair} :
          Commit(changeLanguage(Spend(Cur, "langs"), pair))

\* ---------------------------------------------------- the socket's events
\* the handshake completes: open event
WsOpen ==
    \E ws \in 1..Len(sockets), sid \in SessionIds, sendOk \in BOOLEAN :
       /\ sockets[ws].readyState = "CONNECTING"
       /\ sendOk \/ budget.initFails > 0
       /\ Commit(onopen([(IF sendOk THEN Cur ELSE Spend(Cur, "initFails"))
                            EXCEPT !.sockets[ws].readyState = "OPEN"],
                        ws, sid, sendOk))

\* the connection fails (while connecting, or abruptly once open):
\* error event, then close event
WsFail ==
    \E ws \in 1..Len(sockets) :
       /\ sockets[ws].readyState \in {"CONNECTING", "OPEN"}
       /\ Commit(onclose(onerror([Cur EXCEPT !.sockets[ws].readyState = "CLOSED"],
                                 ws), ws))

\* the remote side closes an open connection: close event
WsRemoteClose ==
    \E ws \in 1..Len(sockets) :
       /\ sockets[ws].readyState = "OPEN"
       /\ Commit(onclose([Cur EXCEPT !.sockets[ws].readyState = "CLOSED"], ws))

\* a close() issued by the page completes: close event, preceded by an
\* error event when the socket had not opened
WsClosed ==
    \E ws \in 1..Len(sockets) :
       /\ sockets[ws].readyState = "CLOSING"
       /\ LET s0 == [Cur EXCEPT !.sockets[ws].readyState = "CLOSED"]
          IN  Commit(onclose(IF sockets[ws].failing THEN onerror(s0, ws) ELSE s0,
                             ws))

\* a message event on an open socket
InboundEvents ==
    {[malformed |-> TRUE]}
    \cup {[malformed |-> FALSE,
           data |-> [type |-> ty, original |-> <<"o">>, translated |-> tr,
                     text |-> NoText]] :
            ty \in {"partial_transcript", "final_transcript"},
            tr \in {NoText, <<"t">>}}
    \cup {[malformed |-> FALSE,
           data |-> [type |-> "partial_transcript", original |-> NoText,
                     translated |-> NoText, text |-> <<"x">>]]}
    \cup {[malformed |-> FALSE, data |-> [type |-> "error", message |-> m]] :
            m \in {Absent, "quota exceeded"}}
    \cup {[malformed |-> FALSE, data |-> [type |-> ty]] :
            ty \in {"ack", "bogus", Absent}}

MessageArrives(event) ==
    \E ws \in 1..Len(sockets) :
       /\ sockets[ws].readyState = "OPEN"
       /\ budget.msgs > 0
       /\ Commit(onmessage(Spend(Cur, "msgs"), event))

WsMessage == \E event \in InboundEvents : MessageArrives(event)

\* ------------------------------------------------------------------ timers
\* the 10 s timer of connectWebSocket fires
ConnectTimeout ==
    \E ws \in 1..Len(sockets) :
       /\ sockets[ws].readyState = "CONNECTING"
       /\ Commit(connectTimeout(Cur, ws))

\* the 200 ms timer of startAudioCapture fires
CaptureDelayDone ==
    \E c \in 1..Len(captures) :
       /\ captures[c].pc = "await_delay"
       /\ Commit(captureDelayDone(Cur, c))

\* getDisplayMedia settles
MediaSettles(outcome) ==
    \E c \in 1..Len(captures) :
       /\ captures[c].pc = "await_media"
       /\ Commit(captureMediaDone(Cur, c, outcome))

CaptureMediaDone ==
    \E outcome \in {"audio", "no_audio", "rejected"} : MediaSettles(outcome)

\* -------------------------------------------------------------------- audio
\* an audioprocess event of a connected ScriptProcessor; the source
\* plays samples at the silence threshold or beyond full scale
SourceSamples == {SILENCE_THRESHOLD, -1500}
SourceChunks == UNION {SeqsOfLen(SourceSamples, n) : n \in 1..MaxChunkLen}

AudioProcess ==
    \E inputData \in SourceChunks :
       /\ liveContexts # {}
       /\ budget.chunks > 0
       /\ Commit(onaudioprocess(Spend(Cur, "chunks"), inputData))

\* a keepalive period (30 s) ends: the interval's callback runs if the
\* interval exists; history: the sockets open at that instant have seen it
KeepaliveTick ==
    /\ budget.ticks > 0
    /\ LET s0 == [Spend(Cur, "ticks") EXCEPT
                    !.sockets = [ws \in 1..Len(sockets) |->
                                   IF sockets[ws].readyState = "OPEN"
                                   THEN [sockets[ws] EXCEPT !.sawTick = TRUE]
                                   ELSE sockets[ws]]]
       IN  Commit(IF pingInterval THEN pingTick(s0) ELSE s0)

Next ==
    \/ ClickConnect
    \/ ClickDisconnect
    \/ ClickStartCapture
    \/ ClickStopCapture
    \/ ClickTestFrame
    \/ SelectLanguage
    \/ WsOpen
    \/ WsFail
    \/ WsRemoteClose
    \/ WsClosed
    \/ WsMessage
    \/ ConnectTimeout
    \/ CaptureDelayDone
    \/ CaptureMediaDone
    \/ AudioProcess

Spec == Init /\ [][Next]_vars

\* ================================================== the capture session
\* The frame accumulator on its own: the behaviours start in the state the
\* handlers reach by Connect, open, Start Capture, open, the 200 ms wait
\* and a source with an audio track; the callback then delivers chunks of
\* any of the sample values, the user may stop and restart capture and
\* send test frames.
Capturing ==
    LET s1 == onopen([connectWebSocket(Mounted, NoCapture)
                        EXCEPT !.sockets[1].readyState = "OPEN"], 1, 1, TRUE)
        s2 == onopen([startAudioCapture(s1)
                        EXCEPT !.sockets[2].readyState = "OPEN"], 2, 2, TRUE)
        s3 == captureMediaDone(captureDelayDone(s2, 1), 1, "audio")
    IN  [s3 EXCEPT !.budget = [sockets |-> 1, captures |-> 1, chunks |-> 0,
                               msgs |-> 0, tests |-> MaxTests, langs |-> 0,
                               initFails |-> 0, feeds |-> MaxFeeds, ticks |-> 0]]

InitFrames == StateIs(Capturing)

Chunks == UNION {SeqsOfLen(Samples, n) : n \in 1..MaxChunkLen}

FeedChunk ==
    \E inputData \in Chunks :
       /\ liveContexts # {}
       /\ budget.feeds > 0
       /\ Commit(onaudioprocess(Spend(Cur, "feeds"), inputData))

NextFrames ==
    \/ FeedChunk
    \/ ClickTestFrame
    \/ ClickStopCapture
    \/ ClickStartCapture
    \/ WsOpen
    \/ CaptureDelayDone
    \/ CaptureMediaDone

SpecFrames == InitFrames /\ [][NextFrames]_vars

\* ====================================================== an open session
\* The behaviours start in the state the handlers reach by Connect and
\* open; the user may then start capture (a second socket), lose the
\* connection and connect again (a third one).  No language change and no
\* test frame in these behaviours.
Connected ==
    LET s1 == onopen([connectWebSocket(Mounted, NoCapture)
                        EXCEPT !.sockets[1].readyState = "OPEN"], 1, 1, TRUE)
    IN  [s1 EXCEPT !.budget = [sockets |-> MaxSockets, captures |-> MaxCaptures,
                               chunks |-> MaxChunks, msgs |-> MaxMsgs,
                               tests |-> 0, langs |-> 0, initFails |-> 0,
                               feeds |-> 0, ticks |-> 0]]

InitSession == StateIs(Connected)

NextSession ==
    \/ ClickConnect
    \/ ClickDisconnect
    \/ ClickStartCapture
    \/ ClickStopCapture
    \/ WsOpen
    \/ WsFail
    \/ WsRemoteClose
    \/ WsClosed
    \/ WsMessage
    \/ ConnectTimeout
    \/ CaptureDelayDone
    \/ CaptureMediaDone
    \/ AudioProcess

SpecSession == InitSession /\ [][NextSession]_vars

\* ==================================================== the inbound stream
\* The behaviours start in the state after Connect and open; the socket
\* receives a burst of messages, may be closed by either side, and the
\* user may connect once more.
Receiving ==
    [Connected EXCEPT !.budget = [sockets |-> 1, captures |-> 0, chunks |-> 0,
                                  msgs |-> MaxBurst, tests |-> 0, langs |-> 0,
                                  initFails |-> 0, feeds |-> 0, ticks |-> 0]]

InitMessages == StateIs(Receiving)

NextMessages ==
    \/ WsMessage
    \/ WsRemoteClose
    \/ WsFail
    \/ WsClosed
    \/ WsOpen
    \/ ClickConnect
    \/ ClickDisconnect
    \/ ConnectTimeout

SpecMessages == InitMessages /\ [][NextMessages]_vars

\* ============================================================ the timers
\* Connecting, with and without a capture waiting for the socket, and no
\* audio: the timer of setTimeout(..., 10000) fires while its socket is
\* still connecting, and the browser completes a close it has started.
Idle ==
    [Mounted EXCEPT !.budget = [sockets |-> MaxSockets, captures |-> MaxCaptures,
                                chunks |-> 0, msgs |-> MaxMsgs, tests |-> 0,
                                langs |-> 0, initFails |-> MaxInitFails,
                                feeds |-> 0, ticks |-> 0]]

InitTimers == StateIs(Idle)

NextTimers ==
    \/ ClickConnect
    \/ ClickDisconnect
    \/ ClickStartCapture
    \/ ClickStopCapture
    \/ WsOpen
    \/ WsFail
    \/ WsRemoteClose
    \/ WsClosed
    \/ WsMessage
    \/ ConnectTimeout
    \/ CaptureDelayDone
    \/ CaptureMediaDone

SpecTimers ==
    InitTimers /\ [][NextTimers]_vars
       /\ WF_vars(ConnectTimeout) /\ WF_vars(WsClosed)

\* =========================================================== the display
\* Transcript messages whose texts have one word, more words than
\* WORD_LIMIT, and an empty word; the translation is missing, equal to the
\* original, or a text of its own. The behaviours start connected; the user
\* may disconnect, select another language and connect again.
ShownOriginals ==
    {<<"a">>, <<"a", " ", "b", " ", "c">>, <<"a", " ", " ", "b">>}

ShownTranslations ==
    {NoText, <<"a">>, <<"x">>, <<"x", " ", "y", " ", "z">>}

DisplayEvents ==
    {[malformed |-> FALSE,
      data |-> [type |-> ty, original |-> o, translated |-> tr,
                text |-> NoText]] :
        ty \in {"partial_transcript", "final_transcript"},
        o \in ShownOriginals, tr \in ShownTranslations}

TranscriptArrives == \E event \in DisplayEvents : MessageArrives(event)

Showing ==
    [Connected EXCEPT !.budget = [sockets |-> 1, captures |-> 0, chunks |-> 0,
                                  msgs |-> MaxShown, tests |-> 0,
                                  langs |-> MaxLangChanges, initFails |-> 0,
                                  feeds |-> 0, ticks |-> 0]]

InitDisplay == StateIs(Showing)

NextDisplay ==
    \/ TranscriptArrives
    \/ SelectLanguage
    \/ ClickConnect
    \/ ClickDisconnect
    \/ WsOpen
    \/ WsFail
    \/ WsRemoteClose
    \/ WsClosed
    \/ ConnectTimeout

SpecDisplay == InitDisplay /\ [][NextDisplay]_vars

\* =========================================================== the worklet
\* An AudioProcessor instance on its own: process is called with blocks of
\* every length up to MaxBlockLen, and with an input that has no channel.
\* The samples are silence, both full-scale values, values beyond them and
\* one in between.
WorkletSamples == {0, UNIT, -UNIT, 1500, -1500, 250}

Constructed == [Mounted EXCEPT !.audioProcessor = AudioProcessorNew]

InitWorklet == StateIs(Constructed)

InputChannels ==
    UNION {SeqsOfLen(WorkletSamples, n) : n \in 0..MaxBlockLen}

WorkletProcess ==
    /\ audioProcessor.calls < MaxBlocks
    /\ \E channels \in {<<>>} \cup {<<c>> : c \in InputChannels} :
          Commit([Cur EXCEPT !.audioProcessor = process(@, channels)])

NextWorklet == WorkletProcess

SpecWorklet == InitWorklet /\ [][NextWorklet]_vars

\* ============================================================ the starts
\* Connected, without audio and without messages: the user may click
\* "Start Capturing Meeting Audio" whenever the button is enabled, up to
\* MaxStarts times, each click creating a socket.
Starting ==
    [Connected EXCEPT !.budget = [sockets |-> MaxStarts, captures |-> MaxStarts,
                                  chunks |-> 0, msgs |-> 0, tests |-> 0,
                                  langs |-> 0, initFails |-> 0, feeds |-> 0,
                                  ticks |-> 0]]

InitStarts == StateIs(Starting)

NextStarts ==
    \/ ClickStartCapture
    \/ ClickStopCapture
    \/ ClickDisconnect
    \/ WsOpen
    \/ WsFail
    \/ WsRemoteClose
    \/ WsClosed
    \/ ConnectTimeout
    \/ CaptureDelayDone
    \/ CaptureMediaDone

SpecStarts == InitStarts /\ [][NextStarts]_vars

\* ========================================================= the keepalive
\* Connections over several keepalive periods, without capture.
Waiting ==
    [Mounted EXCEPT !.budget = [sockets |-> MaxSockets, captures |-> 0,
                                chunks |-> 0, msgs |-> MaxMsgs, tests |-> 0,
                                langs |-> 0, initFails |-> 0, feeds |-> 0,
                                ticks |-> MaxTicks]]

InitKeepalive == StateIs(Waiting)

NextKeepalive ==
    \/ KeepaliveTick
    \/ ClickConnect
    \/ ClickDisconnect
    \/ WsOpen
    \/ WsFail
    \/ WsRemoteClose
    \/ WsClosed
    \/ WsMessage
    \/ ConnectTimeout

SpecKeepalive == InitKeepalive /\ [][NextKeepalive]_vars

\* =================================================================== claims
Last(seq) == seq[Len(seq)]

\* the samples of the candidate frames cut in run r, in the order cut
CutSamples(r) == Flatten([k \in 1..Len(cut[r]) |-> cut[r][k].samples])

IsPrefix(a, b) == Len(a) <= Len(b) /\ SubSeq(b, 1, Len(a)) = a

\* at least one sample has absolute value above the threshold
Loud(samples) ==
    \E i \in 1..Len(samples) :
       samples[i] > SILENCE_THRESHOLD \/ samples[i] < -SILENCE_THRESHOLD

AudioOnWire == SelectSeq(wire, LAMBDA m : m.type = "audio")
FramesOnWire == SelectSeq(AudioOnWire, LAMBDA m : m.origin = "frame")
TestFramesOnWire == SelectSeq(AudioOnWire, LAMBDA m : m.origin = "test")

ByteLength(int16Array) == 2 * Len(int16Array)

C2_FullFramesOnly ==
    \A i \in 1..Len(wire) :
       wire[i].type = "audio" =>
          /\ Len(wire[i].data) = FRAME_SIZE
          /\ ByteLength(wire[i].data) = 2 * FRAME_SIZE

\* C2 witness: a frame was sent while a residual stayed behind unsent, and
\* a test frame was sent
C2_Witness ==
    /\ Len(FramesOnWire) > 0
    /\ Len(TestFramesOnWire) > 0
    /\ frameBufferRef # <<>>
    /\ TotalSamples(frameBufferRef) < FRAME_SIZE

\* C3: a chunk of n samples arriving on a residual of r < FRAME_SIZE
\* samples cuts (r + n) div FRAME_SIZE frames and leaves (r + n) mod
\* FRAME_SIZE samples; after every step the buffer holds fewer than
\* FRAME_SIZE samples
C3_ChunkTaken ==
    /\ Len(input') = Len(input)
    /\ Last(input') # Last(input)

C3_FrameCount ==
    [][/\ TotalSamples(frameBufferRef') < FRAME_SIZE
       /\ C3_ChunkTaken =>
             LET r == TotalSamples(frameBufferRef)
                 n == Len(Last(input')) - Len(Last(input))
             IN  /\ r < FRAME_SIZE
                 /\ Len(Last(cut')) - Len(Last(cut)) = (r + n) \div FRAME_SIZE
                 /\ TotalSamples(frameBufferRef') = (r + n) % FRAME_SIZE]_vars

\* C3 witness: one chunk of FRAME_SIZE + 1 samples on an empty residual
\* has given one frame and a residual of one sample
C3_Witness ==
    /\ budget.feeds = MaxFeeds - 1
    /\ Len(input[1]) = FRAME_SIZE + 1
    /\ Len(cut[1]) = 1
    /\ TotalSamples(frameBufferRef) = 1

\* C4 as claimed: a candidate frame is sent iff one of its samples is
\* above the threshold, and no payload on the wire is silent
C4_Original ==
    /\ \A r \in 1..Len(cut) : \A k \in 1..Len(cut[r]) :
          cut[r][k].sent <=> Loud(cut[r][k].samples)
    /\ \A i \in 1..Len(AudioOnWire) : Loud(AudioOnWire[i].samples)

\* C4 amended: a candidate frame cut by processAudioFrames is sent iff one
\* of its samples is above the threshold; the only other payloads on the
\* wire are the all-zero frames of the test button
C4_SentIffLoud ==
    /\ \A r \in 1..Len(cut) : \A k \in 1..Len(cut[r]) :
          cut[r][k].sent <=> Loud(cut[r][k].samples)
    /\ \A i \in 1..Len(FramesOnWire) : Loud(FramesOnWire[i].samples)
    /\ \A i \in 1..Len(TestFramesOnWire) :
          \A j \in 1..Len(TestFramesOnWire[i].data) :
             TestFramesOnWire[i].data[j] = 0

\* C4 witness: a frame whose loudest sample is exactly at the threshold was
\* skipped, a loud frame was sent, and a test frame was sent
C4_Witness ==
    /\ \E k \in 1..Len(cut[1]) :
          /\ ~cut[1][k].sent
          /\ \E i \in 1..FRAME_SIZE : cut[1][k].samples[i] = SILENCE_THRESHOLD
    /\ \E k \in 1..Len(cut[1]) : cut[1][k].sent
    /\ Len(TestFramesOnWire) > 0

\* C5: the frames on the wire are, in this order and each once, the loud
\* blocks of FRAME_SIZE consecutive samples of the stream the callback
\* pushed (run after run, block after block)
RECURSIVE LoudBlocks(_)
LoudBlocks(run) ==
    IF Len(run) < FRAME_SIZE THEN <<>>
    ELSE LET block == SubSeq(run, 1, FRAME_SIZE)
         IN  (IF Loud(block) THEN <<block>> ELSE <<>>)
             \o LoudBlocks(SubSeq(run, FRAME_SIZE + 1, Len(run)))

C5_GenerationOrder ==
    [i \in 1..Len(FramesOnWire) |-> FramesOnWire[i].samples]
       = Flatten([r \in 1..Len(input) |-> LoudBlocks(input[r])])

\* C5 witness: two different frames are on the wire
C5_Witness ==
    /\ Len(FramesOnWire) >= 2
    /\ FramesOnWire[1].samples # FramesOnWire[2].samples

\* C6: every change of connectionState is an edge of the lifecycle
\* disconnected -> connecting -> connected -> (disconnected | error),
\* error being reachable from any state and left by a connect or disconnect
LifecycleEdges ==
    {<<"disconnected", "connecting">>, <<"connecting", "connected">>,
     <<"connected", "disconnected">>, <<"error", "connecting">>,
     <<"error", "disconnected">>}
    \cup {<<from, "error">> : from \in {"disconnected", "connecting", "connected"}}

C6_Lifecycle ==
    [][connectionState' # connectionState =>
          <<connectionState, connectionState'>> \in LifecycleEdges]_vars

\* C7: when isCapturing becomes true (the processor has just been
\* attached), connectionState is connected
C7_CaptureGated ==
    [][(~isCapturing /\ isCapturing') => connectionState' = "connected"]_vars

\* C8: whenever connectionState is not connected, no captured stream has
\* running tracks and isCapturing is false
C8_TornDown ==
    connectionState # "connected" => (liveStreams = {} /\ ~isCapturing)

\* C9: a step that sends an audio payload is taken with connectionState
\* connected
C9_SendGated ==
    [][\A i \in (Len(wire) + 1)..Len(wire') :
          wire'[i].type = "audio" => connectionState = "connected"]_vars

\* C10: whenever connectionState is connected, the session_init of the
\* current socket has been sent
C10_InitBeforeConnected ==
    connectionState = "connected" =>
       \E i \in 1..Len(wire) :
          wire[i].type = "session_init" /\ wire[i].ws = websocketRef

\* ------------------------------------------------------------ C11 .. C20
SessionInitsOnWire == SelectSeq(wire, LAMBDA m : m.type = "session_init")

\* C11: the session identifiers announced by the session_init messages are
\* pairwise different: no connect attempt that opened a channel got an
\* identifier an earlier one had
C11_SessionIdsDistinct ==
    \A i, j \in 1..Len(SessionInitsOnWire) :
       i # j => SessionInitsOnWire[i].sessionId # SessionInitsOnWire[j].sessionId

\* C12: while connectionState is connected the language pair can be
\* updated, and the update sends exactly one update_language message
\* carrying the new pair on the current socket, closes and opens no socket
\* and leaves the session identifier unchanged
C12_UpdateLanguage ==
    /\ [](connectionState = "connected" /\ budget.langs > 0
             => ENABLED SelectLanguage)
    /\ [][(connectionState = "connected" /\ languagePair' # languagePair) =>
             /\ wire' = Append(wire, [ws |-> websocketRef,
                                      type |-> "update_language",
                                      language_pair |-> languagePair'])
             /\ sockets' = sockets
             /\ websocketRef' = websocketRef
             /\ sessionIdRef' = sessionIdRef
             /\ sessionId' = sessionId]_vars

\* the current socket goes from open to closed while connectionState is
\* connected: the remote side closed it
CurrentClosedRemotely ==
    /\ connectionState = "connected"
    /\ websocketRef # NoSocket
    /\ sockets[websocketRef].readyState = "OPEN"
    /\ sockets'[websocketRef].readyState = "CLOSED"

\* C13: a remote close of the current socket while connected leaves
\* connectionState disconnected and isCapturing false, and while the
\* capture flag is false no audio payload goes on the wire
C13_RemoteCloseHalts ==
    [][/\ CurrentClosedRemotely =>
             (connectionState' = "disconnected" /\ ~isCapturing')
       /\ ~isCapturing => AudioOnWire' = AudioOnWire]_vars

\* a socket opens after the previous current socket was closed by the
\* remote side: websocketRef still refers to the closed socket
ReconnectAfterRemoteClose ==
    /\ websocketRef # NoSocket
    /\ sockets[websocketRef].readyState = "CLOSED"
    /\ connectionState # "connected"
    /\ connectionState' = "connected"

\* C14: when a reconnect after a remote close starts its session, a
\* session identifier is set and every entry the transcript log held is
\* still in it, unchanged and in the same position (whether the
\* identifier differs from the earlier ones is C11)
C14_LogKeptOnReconnect ==
    [][ReconnectAfterRemoteClose =>
          (sessionId' # 0 /\ IsPrefix(transcripts, transcripts'))]_vars

\* the 10 s timer has found socket ws not open and closed it
TimedOut(ws) == ws <= Len(sockets) /\ sockets[ws].failing

C16_FailureIsError ==
    [][/\ WsFail => connectionState' = "error"
       /\ (connectionState = "error" /\ connectionState' # "error")
             => connectionState' = "connecting"]_vars

IsErrorMessage(event) == ~event.malformed /\ event.data.type = "error"

RecognizedTypes ==
    {"partial_transcript", "final_transcript", "session_confirmed",
     "connection_status", "ack", "error"}

IsDroppedMessage(event) ==
    event.malformed \/ event.data.type \notin RecognizedTypes

IsTranscriptMessage(event) ==
    ~event.malformed
    /\ event.data.type \in {"partial_transcript", "final_transcript"}

C19_NoAudioTrack ==
    [][MediaSettles("no_audio") =>
          /\ error' # ""
          /\ ~isCapturing'
          /\ UNCHANGED <<connectionState, sockets, websocketRef,
                         sessionIdRef, sessionId>>]_vars

\* C20: a click on "Stop Audio Capture" detaches the audio callback,
\* discards the residual, closes the current socket and ends with
\* connectionState disconnected
C20_StopClosesChannel ==
    [][ClickStopCapture =>
          /\ processorRef' = NoCapture
          /\ frameBufferRef' = <<>>
          /\ IsOpen(Cur, websocketRef) =>
                sockets'[websocketRef].readyState = "CLOSING"
          /\ connectionState' = "disconnected"]_vars

\* ------------------------------------------------------------ C21 .. C30
\* capture ends: the user stops it, the user disconnects while capturing,
\* or the current socket is closed by the remote side while capturing
CaptureEnds ==
    \/ ClickStopCapture
    \/ (isCapturing /\ ClickDisconnect)
    \/ (isCapturing /\ CurrentClosedRemotely)

PingsOnWire == SelectSeq(wire, LAMBDA m : m.type = "ping")

\* C22: a socket that was open when a keepalive period ended has had a
\* ping sent on it
C22_PingEveryPeriod ==
    \A ws \in 1..Len(sockets) :
       sockets[ws].sawTick =>
          \E i \in 1..Len(PingsOnWire) : PingsOnWire[i].ws = ws

\* a step in which the code reaches one of its guarded sends
SendAttempted == AudioProcess \/ ClickTestFrame \/ SelectLanguage

C25_SingleChannel ==
    Cardinality({ws \in 1..Len(sockets) :
                    sockets[ws].readyState \in {"CONNECTING", "OPEN"}}) <= 1

\* C26: whenever connectionState is disconnected or error, no session
\* identifier is held in sessionIdRef or shown through App's sessionId
C26_SessionOnlyWhileConnected ==
    connectionState \in {"disconnected", "error"} =>
       (sessionIdRef = 0 /\ sessionId = 0)

\* C27: the entry built from a partial_transcript or final_transcript
\* message has a translated text, and when the message carries no
\* translation the translated text is the entry's original text
C27_TranslatedDefaultsToOriginal ==
    [][\A event \in InboundEvents :
          (IsTranscriptMessage(event) /\ MessageArrives(event)) =>
             LET entry == Last(transcripts')
             IN  /\ entry.translated # NoText
                 /\ event.data.translated = NoText
                       => entry.translated = entry.original]_vars

\* C28: the arrival of a partial_transcript or final_transcript message
\* puts exactly one entry, of the message's kind, at the end of the log
\* and leaves the entries before it as they were and where they were; the
\* arrival of any other message leaves the log as it was
C28_AppendOnly ==
    [][\A event \in InboundEvents :
          MessageArrives(event) =>
             IF IsTranscriptMessage(event)
             THEN /\ transcripts' = Append(transcripts, Last(transcripts'))
                  /\ Last(transcripts').type =
                        (IF event.data.type = "partial_transcript"
                         THEN "partial" ELSE "final")
             ELSE transcripts' = transcripts]_vars

\* C28 witness: three transcript messages of alternating kinds have
\* arrived on one socket and the log holds the three entries
C28_Witness ==
    /\ Len(sockets) = 1
    /\ Len(transcripts) = 3
    /\ transcripts[1].type = "partial"
    /\ transcripts[2].type = "final"
    /\ transcripts[3].type = "partial"
    /\ transcripts[1] # transcripts[3]


\* ---- C29
TranslatedShown == getCurrentTranslatedPartial(Cur)

LatestOf(type) ==
    LET of == filter(transcripts, type) IN of[Len(of)]

HasLatest(type) == Len(filter(transcripts, type)) > 0

\* C29 as stated: when the latest event of the log has no translation
\* distinct from its original the translated text shown is that event's
\* original text, and with an empty log it is the empty string
C29_Original ==
    /\ transcripts = <<>> => TranslatedShown = <<>>
    /\ (transcripts # <<>> /\ ~HasDistinctTranslation(Last(transcripts))) =>
          TranslatedShown \in {Last(transcripts).original,
                               limitWords(Last(transcripts).original)}

\* C29: the translated text shown is never a fallback to an original text:
\* it is the empty string when the log is empty or no current partial is
\* set; otherwise it is the word-limited translation of the latest partial
\* entry when that translation is distinct from the entry's original, else
\* the one of the latest final entry when that is distinct, else the
\* empty string
C29_TranslationOrEmpty ==
    /\ transcripts = <<>> => TranslatedShown = <<>>
    /\ ~Truthy(currentPartial) => TranslatedShown = <<>>
    /\ TranslatedShown # <<>> =>
          \E type \in {"partial", "final"} :
             /\ HasLatest(type)
             /\ HasDistinctTranslation(LatestOf(type))
             /\ TranslatedShown = limitWords(LatestOf(type).translated)
    /\ (/\ Truthy(currentPartial)
        /\ HasLatest("partial")
        /\ HasDistinctTranslation(LatestOf("partial"))) =>
          TranslatedShown = limitWords(LatestOf("partial").translated)
    /\ (/\ Truthy(currentPartial)
        /\ ~(HasLatest("partial") /\ HasDistinctTranslation(LatestOf("partial")))
        /\ HasLatest("final")
        /\ HasDistinctTranslation(LatestOf("final"))) =>
          TranslatedShown = limitWords(LatestOf("final").translated)

\* C29 witness: a current partial is shown, the latest event of the log has
\* no translation distinct from its original, and the translated text shown
\* is empty
C29_Witness ==
    /\ connectionState = "connected"
    /\ transcripts # <<>>
    /\ ~HasDistinctTranslation(Last(transcripts))
    /\ Truthy(currentPartial)
    /\ Truthy(Last(transcripts).original)
    /\ TranslatedShown = <<>>

\* ---- C30
\* the last WORD_LIMIT words of a text, the whole text when it has no more
LastWordsOf(text) ==
    LET words == split(text)
    IN  IF Len(words) <= WORD_LIMIT THEN text
        ELSE join(SubSeq(words, Len(words) - WORD_LIMIT + 1, Len(words)))

\* C30 as stated: while the log holds a partial entry and the transcript
\* boxes are rendered (the state is not 'disconnected') the current partial
\* is the last WORD_LIMIT words of the latest partial entry's original
\* text (with or without a mark that words were left out), the whole text
\* when it has no more words; computing it leaves the log as it is
C30_Original ==
    /\ transcriptsEffect(Cur).transcripts = transcripts
    /\ (HasLatest("partial") /\ connectionState # "disconnected") =>
          currentPartial \in {LastWordsOf(LatestOf("partial").original),
                              LastWordsOf(LatestOf("partial").original)
                                 \o Ellipsis}

\* C30: when the log changes and then holds a partial entry, the current
\* partial becomes the original text of the latest partial entry when it
\* has at most WORD_LIMIT words, and otherwise its last WORD_LIMIT words
\* followed by '...'; the current partial keeps that value until the next
\* such change or until the target language changes, which makes it
\* empty; computing it leaves the log as it is
C30_CurrentPartial ==
    /\ [](/\ transcriptsEffect(Cur).transcripts = transcripts
          /\ HasLatest("partial") =>
                currentPartial \in
                   {<<>>,
                    IF Len(split(LatestOf("partial").original)) <= WORD_LIMIT
                    THEN LatestOf("partial").original
                    ELSE LastWordsOf(LatestOf("partial").original) \o Ellipsis})
    /\ [][(transcripts' # transcripts
           /\ Len(filter(transcripts', "partial")) > 0) =>
             LET partials == filter(transcripts', "partial")
                 text == partials[Len(partials)].original
             IN  currentPartial' =
                    (IF Len(split(text)) <= WORD_LIMIT THEN text
                     ELSE LastWordsOf(text) \o Ellipsis)]_vars
    /\ [][(currentPartial' # currentPartial /\ transcripts' = transcripts) =>
             /\ currentPartial' = <<>>
             /\ languagePair'.target # languagePair.target]_vars

\* C30 witness: the latest partial entry has more than WORD_LIMIT words and
\* the current partial is its last WORD_LIMIT words followed by '...'
C30_Witness ==
    /\ HasLatest("partial")
    /\ Len(split(LatestOf("partial").original)) > WORD_LIMIT
    /\ currentPartial = LastWordsOf(LatestOf("partial").original) \o Ellipsis
    /\ currentPartial # LatestOf("partial").original
    /\ Len(split(currentPartial)) = WORD_LIMIT


\* ------------------------------------------------------------ C31 .. C39
\* ---- C31
ConverterInputs ==
    WorkletSamples \cup Samples
       \cup {-2 * UNIT, -UNIT - 1, -UNIT + 1, -1, 1, UNIT - 1, UNIT + 1, 2 * UNIT}

\* the sample a posted value was converted from
ReceivedAt(k, j) == audioProcessor.received[(k - 1) * frameSize + j]

\* C31: the converter of processAudioFrames maps 1.0 to 32767, -1.0 to
\* -32768 and 0 to 0, every input above 1.0 to 32767 and every input below
\* -1.0 to -32768, and yields values in [-32768, 32767] only; the
\* converter of the AudioWorklet processor is the same function, and every
\* value the processor posts is that function of the sample received
C31_Converter ==
    /\ \A x \in ConverterInputs :
          /\ FloatToInt16(x) \in -32768..32767
          /\ x >= UNIT => FloatToInt16(x) = 32767
          /\ x <= -UNIT => FloatToInt16(x) = -32768
          /\ x = 0 => FloatToInt16(x) = 0
          /\ workletSampleToInt16(x) = FloatToInt16(x)
    /\ \A k \in 1..Len(audioProcessor.port), j \in 1..frameSize :
          audioProcessor.port[k].data[j] = FloatToInt16(ReceivedAt(k, j))

\* C31 witness: the processor has posted a frame that holds the values
\* converted from 1.0, from -1.0, from a sample above 1.0 and from a
\* sample below -1.0
C31_Witness ==
    /\ Len(audioProcessor.port) = 2
    /\ \E k, l \in 1..2, i, j, m, n \in 1..frameSize :
          /\ ReceivedAt(k, i) = UNIT
          /\ audioProcessor.port[k].data[i] = 32767
          /\ ReceivedAt(k, j) = -UNIT
          /\ audioProcessor.port[k].data[j] = -32768
          /\ ReceivedAt(l, m) > UNIT
          /\ audioProcessor.port[l].data[m] = 32767
          /\ ReceivedAt(l, n) < -UNIT
          /\ audioProcessor.port[l].data[n] = -32768


\* ---- C39
\* C39: after every process call the processor has posted one frame of
\* exactly frameSize values for every frameSize samples received, the k-th
\* frame holding the converted k-th run of frameSize samples in the order
\* of arrival, and it buffers the fewer than frameSize samples received
\* after the last full run
C39_WorkletFraming ==
    LET p == audioProcessor
        n == Len(p.received)
    IN  /\ Len(p.port) = n \div frameSize
        /\ \A k \in 1..Len(p.port) :
              /\ p.port[k].type = "audio_frame"
              /\ DOMAIN p.port[k].data = 1..frameSize
              /\ \A j \in 1..frameSize :
                    p.port[k].data[j] = workletSampleToInt16(ReceivedAt(k, j))
        /\ p.sampleCount < frameSize
        /\ p.sampleCount = n % frameSize
        /\ \A i \in 1..p.sampleCount :
              p.buffer[i] = p.received[n - p.sampleCount + i]

\* C39 witness: two blocks of MaxBlockLen samples each have been
\* processed, and the second frame posted holds the last sample of the
\* first block and the first sample of the second block
C39_Witness ==
    /\ audioProcessor.calls = 2
    /\ Len(audioProcessor.received) = 2 * MaxBlockLen
    /\ MaxBlockLen % frameSize # 0
    /\ Len(audioProcessor.port) = (2 * MaxBlockLen) \div frameSize
    /\ audioProcessor.received[MaxBlockLen] # audioProcessor.received[MaxBlockLen + 1]
    /\ audioProcessor.port[2].data[1] # audioProcessor.port[2].data[2]


\* ---- C32
\* the messages sent on the current socket that carry a language pair
PairsSentOnCurrent ==
    SelectSeq(wire, LAMBDA m : /\ m.ws = websocketRef
                               /\ m.type \in {"session_init", "update_language"})

\* C32: while connectionState is connected and the session_init of the
\* current socket has been sent, the language pair of the last
\* session_init or update_language message sent on the current socket is
\* the current languagePair
C32_PairInSync ==
    (/\ connectionState = "connected"
     /\ websocketRef # NoSocket
     /\ PairsSentOnCurrent # <<>>) =>
        Last(PairsSentOnCurrent).language_pair = languagePair


\* ---- C33
\* a step in which socket ws gets its close event and no error event
\* comes with it
CloseEventOf(ws) ==
    /\ sockets[ws].readyState \in {"OPEN", "CLOSING"}
    /\ ~sockets[ws].failing
    /\ sockets'[ws].readyState = "CLOSED"
    /\ WsRemoteClose \/ WsClosed

\* C33: the close event of a socket that is not websocketRef.current (the
\* reference was moved to a later socket by its open event, or was cleared
\* by disconnectWebSocket or by the catch block of startAudioCapture)
\* changes neither connectionState nor isCapturing, nor any other state of
\* the components
C33_StaleCloseIgnored ==
    /\ [](\A ws \in 1..Len(sockets) :
             ws # websocketRef =>
                onclose(Cur, ws) = [Cur EXCEPT !.sockets[ws].ignoredClose = TRUE])
    /\ [][\A ws \in 1..Len(sockets) :
             (ws # websocketRef /\ CloseEventOf(ws)) =>
                /\ connectionState' = connectionState
                /\ isCapturing' = isCapturing
                /\ isWebSocketConnected' = isWebSocketConnected
                /\ websocketRef' = websocketRef]_vars

\* C33 witness: the first socket, superseded by the socket the capture
\* opened, got its close event and the handler ignored it; the state is
\* still connected and the capture is still on
C33_Witness ==
    /\ Len(sockets) = 2
    /\ websocketRef = 2
    /\ sockets[1].readyState = "CLOSED"
    /\ sockets[1].ignoredClose
    /\ sockets[2].readyState = "OPEN"
    /\ connectionState = "connected"
    /\ isCapturing


\* ---- C34
\* no open socket is the current one: a message can only come from a
\* socket that was superseded or released
OnlyStaleSocketsOpen ==
    /\ \E ws \in 1..Len(sockets) : sockets[ws].readyState = "OPEN"
    /\ \A ws \in 1..Len(sockets) :
          sockets[ws].readyState = "OPEN" => ws # websocketRef

\* C34: a message that arrives on a socket that is not
\* websocketRef.current leaves the transcript log and connectionState as
\* they were
C34_StaleMessageIgnored ==
    [][(OnlyStaleSocketsOpen /\ WsMessage) =>
          /\ transcripts' = transcripts
          /\ connectionState' = connectionState]_vars


\* ---- C35
\* the invocations of startAudioCapture that are waiting for their
\* connection, their delay or the source selection
InProgress ==
    {c \in 1..Len(captures) :
        captures[c].pc \in {"await_connect", "await_delay", "await_media"}}

\* C35: an invocation of startAudioCapture made while another one is in
\* progress creates no socket: no two invocations are ever in progress
\* together, each with a socket of its own, and no two audio contexts with
\* a connected processor exist together
C35_NotReentrant ==
    /\ Cardinality(InProgress) <= 1
    /\ Cardinality(liveContexts) <= 1


\* ---- C36
\* the messages sent on socket ws, in order
SentOn(ws) == SelectSeq(wire, LAMBDA m : m.ws = ws)

\* C36: on every socket the first message sent is session_init and no
\* later message on that socket is a session_init
C36_InitFirst ==
    \A ws \in 1..Len(sockets) :
       SentOn(ws) # <<>> =>
          /\ SentOn(ws)[1].type = "session_init"
          /\ \A i \in 2..Len(SentOn(ws)) : SentOn(ws)[i].type # "session_init"


\* ---- C37
\* C37: isWebSocketConnected is true exactly when connectionState is
\* connected
C37_SingleStatus ==
    isWebSocketConnected <=> connectionState = "connected"


\* ---- C38
\* C38: while the transcript boxes are rendered (the state is not
\* 'disconnected') and the log holds no partial entry, the current partial
\* is the empty text
C38_NoPartialNoText ==
    (connectionState # "disconnected" /\ ~HasLatest("partial")) =>
       currentPartial = <<>>

====
